---- MODULE Spec2Model ----
(***************************************************************************)
(* Getting_Started_with_OpenQASM_on_Braket.ipynb as a state machine: the   *)
(* notebook kernel runs the statements of the code cells one at a time in  *)
(* cell order, and the remote service moves the submitted quantum tasks    *)
(* through their states on its own.                                        *)
(***************************************************************************)
EXTENDS Integers, Sequences, FiniteSets

(***************************************************************************)
(* Program text.  A source string is the sequence of its non-blank lines;  *)
(* every line is a record (kind, name, param, targets).  A qubit operand   *)
(* is q[i] (an element of the qubit register), q (the whole register),     *)
(* $i (a physical qubit) or, in an SDK Circuit, the integer index i.       *)
(***************************************************************************)
Q(i) == [k |-> "reg", i |-> i]

QAll == [k |-> "regall", i |-> -1]

P(i) == [k |-> "phys", i |-> i]

N(i) == [k |-> "int", i |-> i]

L(kind, name, param, targets) ==
    [kind |-> kind, name |-> name, param |-> param, targets |-> targets]

\* the number of measurement outcomes the service draws a result from
NumOutcomes == 2

Outcomes == 1..NumOutcomes

bell_qasm ==
    << L("header", "OPENQASM", "3", <<>>),
       L("qubit", "q", "2", <<QAll>>),
       L("bit", "c", "2", <<>>),
       L("gate", "h", "", <<Q(0)>>),
       L("gate", "cnot", "", <<Q(0), Q(1)>>),
       L("measure", "c", "", <<QAll>>) >>

noisy_ghz3_program ==
    << L("comment", "noisy_ghz3.qasm", "", <<>>),
       L("comment", "Prepare a 3 noisy qubit GHZ state", "", <<>>),
       L("header", "OPENQASM", "3", <<>>),
       L("qubit", "q", "3", <<QAll>>),
       L("bit", "c", "3", <<>>),
       L("gate", "h", "", <<Q(0)>>),
       L("noise", "depolarizing", "0.1", <<Q(0)>>),
       L("gate", "cnot", "", <<Q(0), Q(1)>>),
       L("noise", "depolarizing", "0.1", <<Q(0)>>),
       L("noise", "depolarizing", "0.1", <<Q(1)>>),
       L("gate", "cnot", "", <<Q(1), Q(2)>>),
       L("noise", "depolarizing", "0.1", <<Q(0)>>),
       L("noise", "depolarizing", "0.1", <<Q(1)>>),
       L("measure", "c", "", <<QAll>>) >>

noisy_program_with_kraus_operators ==
    << L("comment", "noisy_program_with_kraus_operators", "", <<>>),
       L("header", "OPENQASM", "3", <<>>),
       L("qubit", "q", "2", <<QAll>>),
       L("bit", "c", "2", <<>>),
       L("gate", "h", "", <<Q(0)>>),
       L("noise", "kraus",
         "[[0.9486833, 0], [0, 0.9486833]], [[0, 0.31622777], [0.31622777, 0]]",
         <<Q(0)>>),
       L("gate", "cnot", "", <<Q(1), Q(2)>>),
       L("measure", "c", "", <<QAll>>) >>

program_with_unitary ==
    << L("comment", "noisy_program_with_kraus_operators", "", <<>>),
       L("header", "OPENQASM", "3", <<>>),
       L("qubit", "q", "", <<QAll>>),
       L("bit", "c", "", <<>>),
       L("unitary", "unitary", "[[0, -1im], [1im, 0]]", <<QAll>>),
       L("measure", "c", "", <<QAll>>) >>

\* mutant: the second cnot on $0, $2, which the device does not connect
ghz_program_cnot_0_2 ==
    << L("comment", "Prepare a GHZ state", "", <<>>),
       L("header", "OPENQASM", "3", <<>>),
       L("bit", "ro", "3", <<>>),
       L("gate", "h", "", <<P(0)>>),
       L("gate", "cnot", "", <<P(0), P(1)>>),
       L("gate", "cnot", "", <<P(0), P(2)>>),
       L("measure", "ro[0]", "", <<P(0)>>),
       L("measure", "ro[1]", "", <<P(1)>>),
       L("measure", "ro[2]", "", <<P(2)>>) >>

ghz_program_with_physical_qubits ==
    << L("comment", "Prepare a GHZ state", "", <<>>),
       L("header", "OPENQASM", "3", <<>>),
       L("bit", "ro", "3", <<>>),
       L("gate", "h", "", <<P(0)>>),
       L("gate", "cnot", "", <<P(0), P(1)>>),
       L("gate", "cnot", "", <<P(1), P(2)>>),
       L("measure", "ro[0]", "", <<P(0)>>),
       L("measure", "ro[1]", "", <<P(1)>>),
       L("measure", "ro[2]", "", <<P(2)>>) >>

\* mutant: a gate that is not native (h) opens the verbatim box
program_with_verbatim_box_h ==
    << L("header", "OPENQASM", "3", <<>>),
       L("bit", "ro", "2", <<>>),
       L("verbatim", "verbatim", "", <<>>),
       L("box", "{", "", <<>>),
       L("gate", "h", "", <<P(0)>>),
       L("gate", "rx", "3.141592653589793", <<P(0)>>),
       L("gate", "cz", "", <<P(0), P(1)>>),
       L("box", "}", "", <<>>),
       L("measure", "ro[0]", "", <<P(0)>>),
       L("measure", "ro[1]", "", <<P(1)>>) >>

program_with_verbatim_box ==
    << L("header", "OPENQASM", "3", <<>>),
       L("bit", "ro", "2", <<>>),
       L("verbatim", "verbatim", "", <<>>),
       L("box", "{", "", <<>>),
       L("gate", "rx", "3.141592653589793", <<P(0)>>),
       L("gate", "rx", "3.141592653589793", <<P(0)>>),
       L("gate", "cz", "", <<P(0), P(1)>>),
       L("box", "}", "", <<>>),
       L("measure", "ro[0]", "", <<P(0)>>),
       L("measure", "ro[1]", "", <<P(1)>>) >>

bell_with_result_type ==
    << L("header", "OPENQASM", "3", <<>>),
       L("qubit", "q", "2", <<QAll>>),
       L("result", "expectation", "x @ z", <<Q(0), Q(1)>>),
       L("result", "amplitude", "00, 11", <<>>),
       L("gate", "h", "", <<Q(0)>>),
       L("gate", "cnot", "", <<Q(0), Q(1)>>) >>

program_with_non_simultaneously_measurable_result_types ==
    << L("header", "OPENQASM", "3", <<>>),
       L("qubit", "q", "2", <<QAll>>),
       L("gate", "h", "", <<Q(0)>>),
       L("gate", "cnot", "", <<Q(0), Q(1)>>),
       L("result", "expectation", "x @ z", <<Q(0), Q(1)>>),
       L("result", "expectation", "hermitian([[0, -1im], [1im, 0]])", <<Q(0)>>) >>

TextVars ==
    { "bell_qasm", "noisy_ghz3_program", "noisy_program_with_kraus_operators",
      "program_with_unitary", "ghz_program_with_physical_qubits",
      "program_with_verbatim_box", "bell_with_result_type",
      "program_with_non_simultaneously_measurable_result_types" }

\* the string literal a cell assigns to the variable v
Literal(v) ==
    CASE v = "bell_qasm" -> bell_qasm
      [] v = "noisy_ghz3_program" -> noisy_ghz3_program
      [] v = "noisy_program_with_kraus_operators" -> noisy_program_with_kraus_operators
      [] v = "program_with_unitary" -> program_with_unitary
      [] v = "ghz_program_with_physical_qubits" -> ghz_program_with_physical_qubits
      [] v = "program_with_verbatim_box" -> program_with_verbatim_box
      [] v = "bell_with_result_type" -> bell_with_result_type
      [] OTHER -> program_with_non_simultaneously_measurable_result_types

(***************************************************************************)
(* Devices and what the notebook reads from their properties.              *)
(***************************************************************************)
SV1 == "arn:aws:braket:::device/quantum-simulator/amazon/sv1"

DM1 == "arn:aws:braket:::device/quantum-simulator/amazon/dm1"

AspenM1 == "arn:aws:braket:us-west-1::device/qpu/rigetti/Aspen-M-1"

nativeGateSet == {"rx", "rz", "cz", "cphaseshift", "xy"}

connectivityGraph ==
    [q \in {0, 1, 2, 3, 4, 5, 6, 7, 10, 11, 12, 13, 14, 15, 16, 17,
            20, 21, 22, 23, 24, 25, 26, 27, 30, 31, 32, 33, 34, 35, 36, 37,
            42, 43, 44, 45, 46, 47} |->
        CASE q = 0 -> {1, 7}        [] q = 1 -> {0, 16, 2}
          [] q = 10 -> {11, 17}     [] q = 11 -> {10, 12, 26}
          [] q = 12 -> {11, 13, 25} [] q = 13 -> {12, 14}
          [] q = 14 -> {13, 15}     [] q = 15 -> {14, 16, 2}
          [] q = 16 -> {1, 15, 17}  [] q = 17 -> {10, 16}
          [] q = 2 -> {1, 15, 3}    [] q = 20 -> {21, 27}
          [] q = 21 -> {20, 22, 36} [] q = 22 -> {21}
          [] q = 23 -> {24}         [] q = 24 -> {23, 25}
          [] q = 25 -> {12, 24, 26} [] q = 26 -> {11, 25, 27}
          [] q = 27 -> {20, 26}     [] q = 3 -> {2, 4}
          [] q = 30 -> {31, 37}     [] q = 31 -> {30, 32, 46}
          [] q = 32 -> {31, 33, 45} [] q = 33 -> {32, 34}
          [] q = 34 -> {33, 35}     [] q = 35 -> {34, 36}
          [] q = 36 -> {21, 35, 37} [] q = 37 -> {30, 36}
          [] q = 4 -> {3, 5}        [] q = 42 -> {43}
          [] q = 43 -> {42, 44}     [] q = 44 -> {43, 45}
          [] q = 45 -> {32, 44, 46} [] q = 46 -> {31, 45, 47}
          [] q = 47 -> {46}         [] q = 5 -> {4, 6}
          [] q = 6 -> {5, 7}        [] OTHER -> {0, 6}]

(***************************************************************************)
(* The SDK objects the notebook builds.                                    *)
(***************************************************************************)
NoProgram == [type |-> "", source |-> <<>>]

\* mutant: the program object drops the comment lines of its source
OpenQASMProgramStripped(source) ==
    [type |-> "openqasm", source |-> SelectSeq(source, LAMBDA x : x.kind # "comment")]

\* OpenQASMProgram(source=...): the source string is carried as it is
OpenQASMProgram(source) == [type |-> "openqasm", source |-> source]

\* Circuit().h(0).cnot(0, 1).cnot(1, 2)
Circuit_h_cnot_cnot ==
    [type |-> "circuit",
     source |-> << L("gate", "H", "", <<N(0)>>),
                   L("gate", "CNot", "", <<N(0), N(1)>>),
                   L("gate", "CNot", "", <<N(1), N(2)>> ) >>]

NoNoise == L("", "", "", <<>>)

\* Noise.Depolarizing(probability=0.1)
Depolarizing == L("noise", "Depolarizing", "0.1", <<>>)

\* the noise channel on each qubit of the targets, from position i on
RECURSIVE NoiseOnEach(_, _, _)
NoiseOnEach(nz, targets, i) ==
    IF i > Len(targets) THEN <<>>
    ELSE <<L("noise", nz.name, nz.param, <<targets[i]>>)>>
         \o NoiseOnEach(nz, targets, i + 1)

\* apply_gate_noise on an instruction list: after every gate, the noise
\* channel on each target qubit of that gate
RECURSIVE GateNoise(_, _)
GateNoise(instrs, nz) ==
    IF instrs = <<>> THEN <<>>
    ELSE LET x == Head(instrs) IN
         (IF x.kind = "gate"
             THEN <<x>> \o NoiseOnEach(nz, x.targets, 1)
             ELSE <<x>>)
         \o GateNoise(Tail(instrs), nz)

apply_gate_noise(circ, nz) ==
    [type |-> circ.type, source |-> GateNoise(circ.source, nz)]

\* the SDK's operator name for an OpenQASM gate or noise name
SdkName(name) ==
    CASE name = "h" -> "H"
      [] name = "cnot" -> "CNot"
      [] name = "depolarizing" -> "Depolarizing"
      [] name = "kraus" -> "Kraus"
      [] name = "rx" -> "Rx"
      [] name = "cz" -> "CZ"
      [] OTHER -> name

\* a register element q[i] is qubit i of the circuit
QubitIndex(ts) == [j \in 1..Len(ts) |-> N(ts[j].i)]

\* the instruction sequence (gates and noise channels with their target
\* qubits, in order) of a program: a Circuit holds it, OpenQASM text states
\* it in its gate lines and noise pragmas
RECURSIVE TextInstructions(_)
TextInstructions(source) ==
    IF source = <<>> THEN <<>>
    ELSE LET x == Head(source) IN
         (IF x.kind \in {"gate", "noise"}
             THEN <<L(x.kind, SdkName(x.name), x.param, QubitIndex(x.targets))>>
             ELSE <<>>)
         \o TextInstructions(Tail(source))

Instructions(program) ==
    IF program.type = "circuit" THEN program.source
    ELSE TextInstructions(program.source)

\* the gate lines between "box{" and "}" after a verbatim pragma
RECURSIVE BoxGates(_, _)
BoxGates(source, inside) ==
    IF source = <<>> THEN <<>>
    ELSE LET x == Head(source) IN
         CASE x.kind = "box" -> BoxGates(Tail(source), x.name = "{")
           [] x.kind = "gate" /\ inside -> <<x>> \o BoxGates(Tail(source), inside)
           [] OTHER -> BoxGates(Tail(source), inside)


(***************************************************************************)
(* The remote service: what a completed task returns.                      *)
(***************************************************************************)
\* Quil spelling of a gate name and of an angle
QuilName(name) ==
    CASE name = "rx" -> "RX"
      [] name = "rz" -> "RZ"
      [] name = "cz" -> "CZ"
      [] name = "cphaseshift" -> "CPHASE"
      [] name = "xy" -> "XY"
      [] OTHER -> name

QuilParam(param) == IF param = "3.141592653589793" THEN "pi" ELSE param

Quil(x) == L(x.kind, QuilName(x.name), QuilParam(x.param), QubitIndex(x.targets))

Reverse(s) == [j \in 1..Len(s) |-> s[Len(s) + 1 - j]]

\* mutant: the compiler optimises inside the box too, cancelling two equal
\* consecutive rx rotations by pi
RECURSIVE CompileGatesMerging(_, _)
CompileGatesMerging(source, inside) ==
    IF source = <<>> THEN <<>>
    ELSE LET x == Head(source) IN
         CASE x.kind = "box" -> CompileGatesMerging(Tail(source), x.name = "{")
           [] x.kind = "gate" /\ inside /\ Len(source) > 1 /\ source[2] = x
                /\ x.name = "rx" /\ x.param = "3.141592653589793" ->
                CompileGatesMerging(Tail(Tail(source)), inside)
           [] x.kind = "gate" /\ inside ->
                <<Quil(x)>> \o CompileGatesMerging(Tail(source), inside)
           [] x.kind = "gate" ->
                <<L("compiled", x.name, x.param, QubitIndex(x.targets))>>
                \o CompileGatesMerging(Tail(source), inside)
           [] OTHER -> CompileGatesMerging(Tail(source), inside)

\* the gates of the compiled program: a gate inside a verbatim box is
\* emitted as written; a gate outside one goes through the device compiler,
\* whose output the notebook never reads (kind "compiled")
RECURSIVE CompileGates(_, _)
CompileGates(source, inside) ==
    IF source = <<>> THEN <<>>
    ELSE LET x == Head(source) IN
         CASE x.kind = "box" -> CompileGates(Tail(source), x.name = "{")
           [] x.kind = "gate" /\ inside ->
                <<Quil(x)>> \o CompileGates(Tail(source), inside)
           [] x.kind = "gate" ->
                <<L("compiled", x.name, x.param, QubitIndex(x.targets))>>
                \o CompileGates(Tail(source), inside)
           [] OTHER -> CompileGates(Tail(source), inside)

\* rigettiMetadata.compiledProgram: DECLARE, PRAGMA INITIAL_REWIRING, the
\* gates, then the measurements (last one first)
compiledProgram(source) ==
    [j \in 1..Len(SelectSeq(source, LAMBDA x : x.kind = "bit")) |->
        L("declare", SelectSeq(source, LAMBDA x : x.kind = "bit")[j].name,
          SelectSeq(source, LAMBDA x : x.kind = "bit")[j].param, <<>>)]
    \o <<L("pragma", "INITIAL_REWIRING", "NAIVE", <<>>)>>
    \o CompileGates(source, FALSE)
    \o Reverse([j \in 1..Len(SelectSeq(source, LAMBDA x : x.kind = "measure")) |->
                  Quil(SelectSeq(source, LAMBDA x : x.kind = "measure")[j])])

\* the size of the qubit register a source string declares
RegisterSize(source) ==
    LET d == SelectSeq(source, LAMBDA x : x.kind = "qubit") IN
    IF d = <<>> THEN 0
    ELSE CASE d[1].param = "2" -> 2
           [] d[1].param = "3" -> 3
           [] OTHER -> 1

\* result.measured_qubits: the physical qubits the program measures, or
\* every qubit of the register or circuit
measured_qubits(program) ==
    LET m == SelectSeq(program.source,
                       LAMBDA x : x.kind = "measure" /\ x.targets[1].k = "phys")
    IN  CASE program.type = "circuit" -> <<0, 1, 2>>
          [] m # <<>> -> [j \in 1..Len(m) |-> m[j].targets[1].i]
          [] OTHER -> [j \in 1..RegisterSize(program.source) |-> j - 1]

NoPayload ==
    [task |-> 0, outcome |-> 0, measured_qubits |-> <<>>, compiledProgram |-> <<>>]

\* the result payload of task id (device, program) with measurement outcome o
Payload(id, device, program, o) ==
    [task |-> id, outcome |-> o,
     measured_qubits |-> measured_qubits(program),
     compiledProgram |-> IF device = AspenM1 /\ program.type = "openqasm"
                            THEN compiledProgram(program.source) ELSE <<>>]

\* the task the service creates for a run call
create_quantum_task(device, program, shots) ==
    [device |-> device, program |-> program, shots |-> shots,
     status |-> "CREATED", result |-> NoPayload]

Terminal == {"COMPLETED", "FAILED"}

(***************************************************************************)
(* The notebook: the statements of its code cells in cell order.  A        *)
(* statement is (cell, line, op, tgt, a, b, n):                            *)
(*   text        tgt = """..."""                                           *)
(*   device      tgt = AwsDevice(a)                                        *)
(*   program     tgt = OpenQASMProgram(source=a)                           *)
(*   circuit     tgt = Circuit().h(0).cnot(0, 1).cnot(1, 2)                *)
(*   noise       tgt = Noise.Depolarizing(probability=0.1)                 *)
(*   gate_noise  tgt.apply_gate_noise(a)                                   *)
(*   run         tgt = a.run(b, shots=n)                                   *)
(*   run_source  tgt = a.run(OpenQASMProgram(source=b), shots=n)           *)
(*   result      tgt = a.result()            (b = "")                      *)
(*               tgt = a.result().b                                        *)
(*   field       tgt = a.b                                                 *)
(*   print       print(tgt, a) or print(a.b)                               *)
(*   show        a print or a display of local or device data             *)
(*   tracker     tgt = Tracker().start()                                   *)
(*   summary     print(t.quantum_tasks_statistics())                       *)
(*   local       an import or another statement on local data              *)
(***************************************************************************)
S(cell, line, op, tgt, a, b, n) ==
    [cell |-> cell, line |-> line, op |-> op, tgt |-> tgt, a |-> a, b |-> b, n |-> n]

Notebook ==
    << S(1, 19, "local", "", "braket.tracking", "", 0),
       S(1, 20, "tracker", "t", "", "", 0),
       S(2, 53, "text", "bell_qasm", "", "", 0),
       S(3, 107, "local", "", "braket.ir.jaqcd", "", 0),
       S(3, 109, "local", "program", "", "", 0),
       S(3, 110, "show", "program.json(indent=2)", "", "", 0),
       S(4, 139, "local", "", "boto3", "", 0),
       S(5, 159, "local", "", "braket.ir.openqasm", "", 0),
       S(5, 161, "device", "sv1", SV1, "", 0),
       S(5, 163, "program", "bell_program", "bell_qasm", "", 0),
       S(5, 165, "run", "bell_task", "sv1", "bell_program", 100),
       S(6, 188, "local", "bell.qasm", "bell_qasm", "", 0),
       S(7, 241, "show", "supportedOperations", "sv1", "", 0),
       S(8, 252, "show", "supportedPragmas", "sv1", "", 0),
       S(9, 263, "show", "forbiddenPragmas", "sv1", "", 0),
       S(10, 297, "text", "noisy_ghz3_program", "", "", 0),
       S(11, 344, "local", "", "braket.circuits", "", 0),
       S(11, 346, "circuit", "noisy_ghz3_circ", "", "", 0),
       S(11, 347, "noise", "noise", "", "", 0),
       S(11, 348, "gate_noise", "noisy_ghz3_circ", "noise", "", 0),
       S(12, 366, "device", "dm1", DM1, "", 0),
       S(12, 367, "run", "noisy_ghz3_circ_task", "dm1", "noisy_ghz3_circ", 10),
       S(12, 368, "run_source", "noisy_ghz3_program_task", "dm1", "noisy_ghz3_program", 10),
       S(13, 387, "result", "sdk_result", "noisy_ghz3_circ_task", "", 0),
       S(13, 388, "result", "openqasm_result", "noisy_ghz3_program_task", "", 0),
       S(13, 389, "field", "sdk_measurement", "sdk_result", "measurement_counts", 0),
       S(13, 390, "field", "openqasm_measurement", "openqasm_result", "measurement_counts", 0),
       S(13, 391, "print", "sdk measurement results:", "sdk_measurement", "", 0),
       S(13, 392, "print", "openqasm measurement results:", "openqasm_measurement", "", 0),
       S(14, 412, "text", "noisy_program_with_kraus_operators", "", "", 0),
       S(15, 452, "text", "program_with_unitary", "", "", 0),
       S(16, 487, "run_source", "unitary_task", "dm1", "program_with_unitary", 10),
       S(16, 488, "result", "unitary_result", "unitary_task", "", 0),
       S(16, 489, "print", "", "unitary_result", "measurement_counts", 0),
       S(17, 517, "text", "ghz_program_with_physical_qubits", "", "", 0),
       S(19, 555, "device", "aspen_m1", AspenM1, "", 0),
       S(19, 557, "run_source", "ghz_program_with_physical_qubits_task", "aspen_m1",
         "ghz_program_with_physical_qubits", 10),
       S(19, 558, "result", "measured_qubits", "ghz_program_with_physical_qubits_task",
         "measured_qubits", 0),
       S(19, 559, "print", "Measured qubits:", "measured_qubits", "", 0),
       S(20, 597, "text", "program_with_verbatim_box", "", "", 0),
       S(21, 641, "show", "The native gates for the device are:", "aspen_m1", "", 0),
       S(21, 642, "show", "nativeGateSet", "aspen_m1", "", 0),
       S(22, 670, "local", "", "networkx", "", 0),
       S(22, 672, "show", "connectivityGraph", "aspen_m1", "", 0),
       S(22, 673, "show", "topology_graph", "aspen_m1", "", 0),
       S(23, 708, "run_source", "verbatim_task", "aspen_m1", "program_with_verbatim_box", 10),
       S(23, 709, "result", "verbatim_result", "verbatim_task", "", 0),
       S(23, 710, "field", "meta", "verbatim_result", "additional_metadata.rigettiMetadata", 0),
       S(23, 711, "print", "", "meta", "compiledProgram", 0),
       S(24, 752, "show", "supportedResultTypes", "sv1", "", 0),
       S(25, 771, "text", "bell_with_result_type", "", "", 0),
       S(26, 808, "run_source", "bell_result_types_task", "sv1", "bell_with_result_type", 0),
       S(26, 809, "result", "bell_result", "bell_result_types_task", "", 0),
       S(26, 810, "field", "values", "bell_result", "values", 0),
       S(26, 811, "print", "", "values", "", 0),
       S(27, 830, "text", "program_with_non_simultaneously_measurable_result_types", "", "", 0),
       S(28, 879, "show", "Task Summary", "", "", 0),
       S(28, 880, "summary", "", "t", "", 0),
       S(28, 881, "show", "Note: Charges shown are estimates", "", "", 0),
       S(28, 882, "show", "Estimated cost to run this example", "t", "", 0) >>

ProgVars == {"bell_program", "noisy_ghz3_circ"}

DevVars == {"sv1", "dm1", "aspen_m1"}

TaskVars ==
    { "bell_task", "noisy_ghz3_circ_task", "noisy_ghz3_program_task", "unitary_task",
      "ghz_program_with_physical_qubits_task", "verbatim_task", "bell_result_types_task" }

ValVars ==
    { "sdk_result", "openqasm_result", "sdk_measurement", "openqasm_measurement",
      "unitary_result", "measured_qubits", "verbatim_result", "meta", "bell_result",
      "values" }

NoVal == [task |-> 0, from |-> NoPayload, path |-> <<>>]

\* None, as result() of task id returns it when the task has no result
None(id) == [task |-> id, from |-> NoPayload, path |-> <<>>]

IsNone(x) == x.task # 0 /\ x.from = NoPayload

NoErr == [cell |-> 0, line |-> 0, kind |-> ""]

Attr(b) == IF b = "" THEN <<>> ELSE <<b>>

VARIABLES
    pc,       \* the statement of Notebook the kernel executes next
    t,        \* the cost tracker: started, and the tasks it has seen
    src,      \* the program-text variables
    prog,     \* the program objects (bell_program, noisy_ghz3_circ)
    noise,    \* the variable noise
    dev,      \* the device variables: the ARN each was built with
    handle,   \* the task variables: the id of the task each refers to
    val,      \* the result variables and what was read from results
    out,      \* what the cells have printed, in order
    summary,  \* the task statistics the last cell printed
    err,      \* the error that stopped the run, if any
    tasks     \* the remote service's tasks, by id

nbvars == <<pc, t, src, prog, noise, dev, handle, val, out, summary, err>>

vars == <<pc, t, src, prog, noise, dev, handle, val, out, summary, err, tasks>>

Init ==
    /\ pc = 1
    /\ t = [started |-> FALSE, tasks |-> <<>>]
    /\ src = [v \in TextVars |-> <<>>]
    /\ prog = [v \in ProgVars |-> NoProgram]
    /\ noise = NoNoise
    /\ dev = [v \in DevVars |-> ""]
    /\ handle = [v \in TaskVars |-> 0]
    /\ val = [v \in ValVars |-> NoVal]
    /\ out = <<>>
    /\ summary = <<>>
    /\ err = NoErr
    /\ tasks = <<>>

\* the kernel is about to execute a statement of kind op; the notebook is run
\* from the first cell on and the run stops at the first statement that raises.
\* (The outputs recorded in the file come from cells run by hand, some more
\* than once: the summary shows the two QPU tasks QUEUED next to their
\* printed results, and the displays are numbered 92 and 94.)
Ready(op) == err = NoErr /\ pc <= Len(Notebook) /\ Notebook[pc].op = op

Item(st, task, payload, path) ==
    [cell |-> st.cell, line |-> st.line, label |-> st.tgt,
     task |-> task, payload |-> payload, path |-> path]

\* the tracker's record of a task event: the status the client last saw
Track(tr, id, device, shots, status) ==
    IF ~tr.started THEN tr
    ELSE IF id <= Len(tr.tasks)
         THEN [tr EXCEPT !.tasks[id].status = status]
         ELSE [tr EXCEPT !.tasks = Append(@, [device |-> device, shots |-> shots,
                                              status |-> status])]

(***************************************************************************)
(* The kernel: one action per kind of statement.                           *)
(***************************************************************************)
\* an import, a file write, a local assignment
Local ==
    /\ Ready("local")
    /\ pc' = pc + 1
    /\ UNCHANGED <<t, src, prog, noise, dev, handle, val, out, summary, err, tasks>>

\* t = Tracker().start()
StartTracker ==
    /\ Ready("tracker")
    /\ t' = [started |-> TRUE, tasks |-> <<>>]
    /\ pc' = pc + 1
    /\ UNCHANGED <<src, prog, noise, dev, handle, val, out, summary, err, tasks>>

\* a print or display of local data or of device properties
Show ==
    /\ Ready("show")
    /\ out' = Append(out, Item(Notebook[pc], 0, NoPayload, <<>>))
    /\ pc' = pc + 1
    /\ UNCHANGED <<t, src, prog, noise, dev, handle, val, summary, err, tasks>>

\* name = """ ... """
AssignText ==
    /\ Ready("text")
    /\ src' = [src EXCEPT ![Notebook[pc].tgt] = Literal(Notebook[pc].tgt)]
    /\ pc' = pc + 1
    /\ UNCHANGED <<t, prog, noise, dev, handle, val, out, summary, err, tasks>>

\* name = AwsDevice(arn)
NewDevice ==
    /\ Ready("device")
    /\ dev' = [dev EXCEPT ![Notebook[pc].tgt] = Notebook[pc].a]
    /\ pc' = pc + 1
    /\ UNCHANGED <<t, src, prog, noise, handle, val, out, summary, err, tasks>>

\* bell_program = OpenQASMProgram(source=bell_qasm)
NewProgram ==
    /\ Ready("program")
    /\ prog' = [prog EXCEPT ![Notebook[pc].tgt] = OpenQASMProgram(src[Notebook[pc].a])]
    /\ pc' = pc + 1
    /\ UNCHANGED <<t, src, noise, dev, handle, val, out, summary, err, tasks>>

\* noisy_ghz3_circ = Circuit().h(0).cnot(0, 1).cnot(1, 2)
NewCircuit ==
    /\ Ready("circuit")
    /\ prog' = [prog EXCEPT ![Notebook[pc].tgt] = Circuit_h_cnot_cnot]
    /\ pc' = pc + 1
    /\ UNCHANGED <<t, src, noise, dev, handle, val, out, summary, err, tasks>>

\* noise = Noise.Depolarizing(probability=0.1)
NewNoise ==
    /\ Ready("noise")
    /\ noise' = Depolarizing
    /\ pc' = pc + 1
    /\ UNCHANGED <<t, src, prog, dev, handle, val, out, summary, err, tasks>>

\* noisy_ghz3_circ.apply_gate_noise(noise): the call changes the circuit in
\* place and returns it; it is the last expression of its cell, so the cell
\* displays the circuit
ApplyGateNoise ==
    /\ Ready("gate_noise")
    /\ prog' = [prog EXCEPT ![Notebook[pc].tgt] = apply_gate_noise(@, noise)]
    /\ out' = Append(out, Item(Notebook[pc], 0, NoPayload, <<>>))
    /\ pc' = pc + 1
    /\ UNCHANGED <<t, src, noise, dev, handle, val, summary, err, tasks>>

\* the program object a run statement passes to the device
Submitted(st) ==
    IF st.op = "run" THEN prog[st.b] ELSE OpenQASMProgram(src[st.b])

\* device.run(program, shots=n): the service accepts the task and the call
\* returns its handle at once
Submit(st) ==
    /\ tasks' = Append(tasks, create_quantum_task(dev[st.a], Submitted(st), st.n))
    /\ handle' = [handle EXCEPT ![st.tgt] = Len(tasks) + 1]
    /\ t' = Track(t, Len(tasks) + 1, dev[st.a], st.n, "CREATED")
    /\ pc' = pc + 1
    /\ UNCHANGED <<src, prog, noise, dev, val, out, summary, err>>

Run ==
    /\ Ready("run")
    /\ Submit(Notebook[pc])

RunSource ==
    /\ Ready("run_source")
    /\ Submit(Notebook[pc])

\* the statement raises: the cell stops there and the error is shown
Raise(kind) ==
    /\ err' = [cell |-> Notebook[pc].cell, line |-> Notebook[pc].line, kind |-> kind]
    /\ UNCHANGED <<pc, src, prog, noise, dev, handle, val, out, summary>>

\* the service rejects the run call (validation, device not available)
RunFails ==
    /\ Ready("run") \/ Ready("run_source")
    /\ Raise("run")
    /\ UNCHANGED <<t, tasks>>

\* AwsDevice(arn) asks the service for the device and the call raises (no
\* such device, no access, no connection)
DeviceFails ==
    /\ Ready("device")
    /\ Raise("device")
    /\ UNCHANGED <<t, tasks>>

\* mutant: result() returns without waiting for the task to complete
ResultNoWait ==
    /\ Ready("result")
    /\ LET st == Notebook[pc]
           id == handle[st.a]
       IN  /\ id \in 1..Len(tasks)
           /\ val' = [val EXCEPT ![st.tgt] =
                        [task |-> id, from |-> tasks[id].result, path |-> Attr(st.b)]]
           /\ t' = Track(t, id, tasks[id].device, tasks[id].shots, tasks[id].status)
    /\ pc' = pc + 1
    /\ UNCHANGED <<src, prog, noise, dev, handle, out, summary, err, tasks>>

\* mutant: result() returns the payload of whichever task has completed
ResultFirstCompleted ==
    /\ Ready("result")
    /\ \E id \in 1..Len(tasks) :
           /\ tasks[id].status = "COMPLETED"
           /\ val' = [val EXCEPT ![Notebook[pc].tgt] =
                        [task |-> id, from |-> tasks[id].result,
                         path |-> Attr(Notebook[pc].b)]]
           /\ t' = Track(t, id, tasks[id].device, tasks[id].shots, "COMPLETED")
    /\ pc' = pc + 1
    /\ UNCHANGED <<src, prog, noise, dev, handle, out, summary, err, tasks>>

\* task.result() while the task has not ended: the call polls the task's
\* status, the tracker records the status each poll reports, and the call
\* goes on waiting (until the client's poll time limit: ResultTimeout)
Poll ==
    /\ Ready("result")
    /\ LET id == handle[Notebook[pc].a]
       IN  /\ id \in 1..Len(tasks)
           /\ tasks[id].status \notin Terminal
           /\ t' = Track(t, id, tasks[id].device, tasks[id].shots, tasks[id].status)
    /\ UNCHANGED <<pc, src, prog, noise, dev, handle, val, out, summary, err, tasks>>

\* task.result(): the poll that finds the task completed ends the wait and
\* the call returns the task's result payload
Result ==
    /\ Ready("result")
    /\ LET st == Notebook[pc]
           id == handle[st.a]
       IN  /\ id \in 1..Len(tasks)
           /\ tasks[id].status = "COMPLETED"
           /\ val' = [val EXCEPT ![st.tgt] =
                        [task |-> id, from |-> tasks[id].result, path |-> Attr(st.b)]]
           /\ t' = Track(t, id, tasks[id].device, tasks[id].shots, "COMPLETED")
    /\ pc' = pc + 1
    /\ UNCHANGED <<src, prog, noise, dev, handle, out, summary, err, tasks>>

\* task.result() on a task that failed at the service, when the external
\* client raises: the notebook, which has no try/except, does not catch it
ResultFails ==
    /\ Ready("result")
    /\ LET id == handle[Notebook[pc].a]
       IN  /\ id \in 1..Len(tasks)
           /\ tasks[id].status = "FAILED"
           /\ t' = Track(t, id, tasks[id].device, tasks[id].shots, "FAILED")
    /\ Raise("result")
    /\ UNCHANGED tasks

\* task.result() on a task that failed at the service, when the external
\* client only reports the failure and returns None: name = task.result()
\* assigns None and the cell goes on; task.result().attribute raises
\* AttributeError on the spot
ResultNone ==
    /\ Ready("result")
    /\ LET st == Notebook[pc]
           id == handle[st.a]
       IN  /\ id \in 1..Len(tasks)
           /\ tasks[id].status = "FAILED"
           /\ t' = Track(t, id, tasks[id].device, tasks[id].shots, "FAILED")
           /\ IF st.b = ""
                 THEN /\ val' = [val EXCEPT ![st.tgt] = None(id)]
                      /\ pc' = pc + 1
                      /\ UNCHANGED <<src, prog, noise, dev, handle, out, summary, err>>
                 ELSE Raise("attribute")
    /\ UNCHANGED tasks

\* task.result() when the client's poll time limit is over (the notebook
\* passes none, so the client's default limit applies) and the last poll
\* found the task not ended: the call gives up without polling again and
\* returns None, as for a failed task, whatever has become of the task
\* since that poll.  The limit is a time; the model lets it be over at any
\* moment of the wait.
ResultTimeout ==
    /\ Ready("result")
    /\ LET st == Notebook[pc]
           id == handle[st.a]
       IN  /\ id \in 1..Len(tasks)
           /\ id \in 1..Len(t.tasks) => t.tasks[id].status \notin Terminal
           /\ IF st.b = ""
                 THEN /\ val' = [val EXCEPT ![st.tgt] = None(id)]
                      /\ pc' = pc + 1
                      /\ UNCHANGED <<src, prog, noise, dev, handle, out, summary, err>>
                 ELSE Raise("attribute")
    /\ UNCHANGED <<t, tasks>>

\* mutant: reading an attribute of None gives None instead of raising
FieldOfNoneIsNone ==
    /\ Ready("field")
    /\ LET st == Notebook[pc]
       IN  val' = [val EXCEPT ![st.tgt] =
                     [task |-> val[st.a].task, from |-> val[st.a].from,
                      path |-> val[st.a].path \o Attr(st.b)]]
    /\ pc' = pc + 1
    /\ UNCHANGED <<t, src, prog, noise, dev, handle, out, summary, err, tasks>>

\* name = result.attribute
Field ==
    /\ Ready("field")
    /\ ~IsNone(val[Notebook[pc].a])
    /\ LET st == Notebook[pc]
       IN  val' = [val EXCEPT ![st.tgt] =
                     [task |-> val[st.a].task, from |-> val[st.a].from,
                      path |-> val[st.a].path \o Attr(st.b)]]
    /\ pc' = pc + 1
    /\ UNCHANGED <<t, src, prog, noise, dev, handle, out, summary, err, tasks>>

\* name = result.attribute when result is None: AttributeError
FieldFails ==
    /\ Ready("field")
    /\ IsNone(val[Notebook[pc].a])
    /\ Raise("attribute")
    /\ UNCHANGED <<t, tasks>>

\* mutant: the cell computes the value and prints nothing
PrintNothing ==
    /\ Ready("print")
    /\ pc' = pc + 1
    /\ UNCHANGED <<t, src, prog, noise, dev, handle, val, out, summary, err, tasks>>

\* print(label, name) or print(name.attribute)
PrintValue ==
    /\ Ready("print")
    /\ ~(Notebook[pc].b # "" /\ IsNone(val[Notebook[pc].a]))
    /\ LET st == Notebook[pc]
       IN  out' = Append(out, Item(st, val[st.a].task, val[st.a].from,
                                   val[st.a].path \o Attr(st.b)))
    /\ pc' = pc + 1
    /\ UNCHANGED <<t, src, prog, noise, dev, handle, val, summary, err, tasks>>

\* print(name.attribute) when name is None: AttributeError
PrintFails ==
    /\ Ready("print")
    /\ Notebook[pc].b # "" /\ IsNone(val[Notebook[pc].a])
    /\ Raise("attribute")
    /\ UNCHANGED <<t, tasks>>

\* mutant: the last cell prints the tracker object, not its statistics
PrintSummaryNoStatistics ==
    /\ Ready("summary")
    /\ out' = Append(out, Item(Notebook[pc], 0, NoPayload, <<>>))
    /\ pc' = pc + 1
    /\ UNCHANGED <<t, src, prog, noise, dev, handle, val, summary, err, tasks>>

\* print(t.quantum_tasks_statistics())
PrintSummary ==
    /\ Ready("summary")
    /\ summary' = t.tasks
    /\ out' = Append(out, Item(Notebook[pc], 0, NoPayload, <<"quantum_tasks_statistics">>))
    /\ pc' = pc + 1
    /\ UNCHANGED <<t, src, prog, noise, dev, handle, val, err, tasks>>

(***************************************************************************)
(* The service: every task moves CREATED, QUEUED, RUNNING and ends         *)
(* COMPLETED, or fails on the way, whatever the notebook is doing.         *)
(***************************************************************************)
ServiceQueue(i) ==
    /\ tasks[i].status = "CREATED"
    /\ tasks' = [tasks EXCEPT ![i].status = "QUEUED"]
    /\ UNCHANGED nbvars

ServiceStart(i) ==
    /\ tasks[i].status = "QUEUED"
    /\ tasks' = [tasks EXCEPT ![i].status = "RUNNING"]
    /\ UNCHANGED nbvars

ServiceComplete(i, o) ==
    /\ tasks[i].status = "RUNNING"
    /\ tasks' = [tasks EXCEPT ![i].status = "COMPLETED",
                              ![i].result = Payload(i, tasks[i].device, tasks[i].program, o)]
    /\ UNCHANGED nbvars

\* a task fails at any moment before it has ended: at validation (CREATED),
\* in the queue or while running
ServiceFail(i) ==
    /\ tasks[i].status \notin Terminal
    /\ tasks' = [tasks EXCEPT ![i].status = "FAILED"]
    /\ UNCHANGED nbvars

Kernel ==
    \/ Local \/ StartTracker \/ Show \/ AssignText \/ NewDevice \/ NewProgram
    \/ DeviceFails \/ NewCircuit \/ NewNoise \/ ApplyGateNoise
    \/ Run \/ RunSource \/ RunFails
    \/ Poll \/ Result \/ ResultFails \/ ResultNone \/ ResultTimeout
    \/ Field \/ FieldFails
    \/ PrintValue \/ PrintFails \/ PrintSummary

Service ==
    \E i \in 1..Len(tasks) :
        \/ ServiceQueue(i)
        \/ ServiceStart(i)
        \/ \E o \in Outcomes : ServiceComplete(i, o)
        \/ ServiceFail(i)

Next == Kernel \/ Service

Spec == Init /\ [][Next]_vars

(***************************************************************************)
(* Properties.                                                             *)
(***************************************************************************)
\* the position in Notebook of the statement at a source line
Idx(line) == CHOOSE i \in 1..Len(Notebook) : Notebook[i].line = line

Executed(line) == pc > Idx(line)

TaskIds == 1..Len(tasks)

\* the task a task variable refers to has been submitted
Has(v) == handle[v] \in TaskIds

\* the printed items that show something of task i
Shown(i) == {k \in 1..Len(out) : out[k].task = i}

\* the variables that hold the result of task i or something read from it
Fetched(i) == {v \in ValVars : val[v].task = i /\ ~IsNone(val[v])}

\* the task variables the notebook calls result() on
AwaitedVars ==
    {Notebook[k].a : k \in {j \in 1..Len(Notebook) : Notebook[j].op = "result"}}

\* the position of the result call on task variable v
ResultIdx(v) ==
    CHOOSE k \in 1..Len(Notebook) : Notebook[k].op = "result" /\ Notebook[k].a = v

\* statement k reads an attribute of what result() of v returned
ReadsResultOf(k, v) ==
    LET r == Notebook[ResultIdx(v)]
    IN  \/ k = ResultIdx(v) /\ r.b # ""
        \/ /\ k > ResultIdx(v)
           /\ Notebook[k].op \in {"field", "print"}
           /\ Notebook[k].a = r.tgt
           /\ Notebook[k].b # ""

\* the first statement that reads an attribute of the result of v
FirstUse(v) ==
    CHOOSE k \in 1..Len(Notebook) :
        ReadsResultOf(k, v) /\ \A j \in 1..(k - 1) : ~ReadsResultOf(j, v)

SummaryPrinted == \E k \in 1..Len(out) : out[k].path = <<"quantum_tasks_statistics">>

\* an instruction list in which every gate is followed by the noise channel
\* on each qubit the gate acts on, and noise is nowhere else
NoiseAfterEachGate(instrs, nz) ==
    instrs = GateNoise(SelectSeq(instrs, LAMBDA x : x.kind = "gate"), nz)

\* C1: in noisy_ghz3_program a depolarizing(0.1) channel follows each gate on
\* each qubit the gate acts on, and the instruction sequence of the submitted
\* OpenQASM program equals that of noisy_ghz3_circ after apply_gate_noise.
C1_SameInstructions ==
    (Has("noisy_ghz3_circ_task") /\ Has("noisy_ghz3_program_task")) =>
        LET c == tasks[handle["noisy_ghz3_circ_task"]].program
            q == tasks[handle["noisy_ghz3_program_task"]].program
        IN  /\ NoiseAfterEachGate(Instructions(q), Depolarizing)
            /\ Instructions(q) = Instructions(c)

\* task i was awaited to completion, its payload fetched and displayed
AwaitedFetchedShown(i) ==
    /\ tasks[i].status = "COMPLETED"
    /\ \E v \in Fetched(i) : val[v].from = tasks[i].result
    /\ \E k \in Shown(i) : out[k].payload = tasks[i].result

\* C2 as stated: when the task summary is printed, every submitted task
\* (bell_task included) has been awaited, fetched and displayed.
C2_EveryTaskAwaited ==
    SummaryPrinted =>
        /\ Len(tasks) = Cardinality(TaskVars)
        /\ \A i \in TaskIds : AwaitedFetchedShown(i)

\* C2 amended: when the task summary is printed, every task but bell_task
\* has been awaited, fetched and displayed; bell_task was only submitted:
\* no result of it was requested, and the tracker still shows it CREATED.
C2_AllButBellAwaited ==
    SummaryPrinted =>
        /\ Len(tasks) = Cardinality(TaskVars)
        /\ \A v \in TaskVars : Has(v)
        /\ \A v \in TaskVars \ {"bell_task"} : AwaitedFetchedShown(handle[v])
        /\ Fetched(handle["bell_task"]) = {}
        /\ Shown(handle["bell_task"]) = {}
        /\ summary[handle["bell_task"]].status = "CREATED"
        /\ \A v \in TaskVars \ {"bell_task"} : summary[handle[v]].status = "COMPLETED"

C2_Witness ==
    /\ SummaryPrinted
    /\ tasks[handle["bell_task"]].status = "QUEUED"

\* C3: the task that runs program_with_unitary is submitted to SV1.
C3_UnitaryOnSV1 ==
    Has("unitary_task") =>
        /\ tasks[handle["unitary_task"]].program.source = program_with_unitary
        /\ tasks[handle["unitary_task"]].device = SV1

\* the program of task i was authored by the notebook before it was submitted
Authored(i) ==
    \/ /\ tasks[i].program.type = "openqasm"
       /\ \E v \in TextVars : src[v] # <<>> /\ src[v] = tasks[i].program.source
    \/ /\ tasks[i].program.type = "circuit"
       /\ \E v \in ProgVars : prog[v] = tasks[i].program

\* C4: for every task the steps come in the order author, submit, complete,
\* fetch, display: a payload exists only for a completed task, a variable
\* holds a payload only of a submitted and completed task (None is no
\* payload), and what is printed of a task was fetched from it.
C4_OrderOfSteps ==
    /\ \A i \in TaskIds :
          /\ Authored(i)
          /\ tasks[i].status # "COMPLETED" => tasks[i].result = NoPayload
          /\ tasks[i].status = "COMPLETED" => tasks[i].result.task = i
    /\ \A v \in ValVars :
          val[v] # NoVal =>
              /\ val[v].task \in TaskIds
              /\ ~IsNone(val[v]) =>
                    /\ tasks[val[v].task].status = "COMPLETED"
                    /\ val[v].from = tasks[val[v].task].result
    /\ \A k \in 1..Len(out) :
          /\ out[k].task = 0 => out[k].payload = NoPayload
          /\ out[k].task # 0 =>
              /\ out[k].task \in TaskIds
              /\ tasks[out[k].task].status = "COMPLETED"
              /\ out[k].payload = tasks[out[k].task].result
              /\ \E v \in Fetched(out[k].task) : val[v].from = out[k].payload

C4_Witness ==
    /\ Executed(811)
    /\ \E k \in Shown(handle["bell_result_types_task"]) : out[k].payload.outcome = 2
    /\ \E k \in Shown(handle["noisy_ghz3_program_task"]) : out[k].payload.outcome = 1

\* what cell 13 has printed
Cell13 == SelectSeq(out, LAMBDA x : x.cell = 13)

\* a printed item is the measurement counts of the task variable v refers to
CountsOf(x, label, v) ==
    /\ x.label = label
    /\ x.task = handle[v]
    /\ x.payload = tasks[handle[v]].result
    /\ x.path = <<"measurement_counts">>

C5_PrintOrder ==
    /\ Len(Cell13) <= 2
    /\ Executed(392) => Len(Cell13) = 2
    /\ Len(Cell13) >= 1 =>
          CountsOf(Cell13[1], "sdk measurement results:", "noisy_ghz3_circ_task")
    /\ Len(Cell13) = 2 =>
          CountsOf(Cell13[2], "openqasm measurement results:", "noisy_ghz3_program_task")
    /\ \A v \in {"sdk_result", "sdk_measurement"} :
          val[v] # NoVal => val[v].task = handle["noisy_ghz3_circ_task"]
    /\ \A v \in {"openqasm_result", "openqasm_measurement"} :
          val[v] # NoVal => val[v].task = handle["noisy_ghz3_program_task"]

\* the notebook variables but the tracker
cellvars == <<pc, src, prog, noise, dev, handle, val, out, summary, err>>

\* a step of the kernel executes the statement at pc, or raises from it, or
\* is a poll of the result call at pc, which changes the tracker only
KernelStep ==
    \/ pc' = pc + 1
    \/ err = NoErr /\ err' # NoErr
    \/ Ready("result") /\ UNCHANGED <<cellvars, tasks>>

\* C5: the statements run one at a time in cell order; a step that is not
\* the kernel's (the service moving a task) changes no notebook variable;
\* and whatever the order in which the service completes the two tasks of
\* cell 12, cell 13 prints the SDK task's counts and then the OpenQASM
\* task's counts, each the payload of the task its variable refers to.
C5_BlockingSequential ==
    /\ [][(pc' = pc \/ pc' = pc + 1) /\ (~KernelStep => UNCHANGED nbvars)]_vars
    /\ []C5_PrintOrder

\* the service has completed the OpenQASM task of cell 12 while the kernel
\* still waits in result() for the SDK task, submitted before it and read
\* before it: the two end in the order opposite to the reads
C5_Witness ==
    /\ pc = Idx(387)
    /\ err = NoErr
    /\ tasks[handle["noisy_ghz3_program_task"]].status = "COMPLETED"
    /\ tasks[handle["noisy_ghz3_circ_task"]].status = "RUNNING"
    /\ t.tasks[handle["noisy_ghz3_circ_task"]].status = "RUNNING"

\* the shot count each run statement states
StatedShots(v) ==
    LET k == CHOOSE j \in 1..Len(Notebook) :
                 Notebook[j].op \in {"run", "run_source"} /\ Notebook[j].tgt = v
    IN  Notebook[k].n

\* task variable v's run call was given an OpenQASM source string, the very
\* string the notebook authored
GivenAuthoredText(v) ==
    /\ tasks[handle[v]].program.type = "openqasm"
    /\ \E x \in TextVars :
          /\ src[x] = Literal(x)
          /\ tasks[handle[v]].program.source = Literal(x)

GivenShots(v) == tasks[handle[v]].shots = StatedShots(v)

\* C6 as stated: every run call is given an OpenQASM source string, unmodified,
\* and an explicit shot count.
C6_EveryRunGivenText ==
    \A v \in TaskVars : Has(v) => GivenAuthoredText(v) /\ GivenShots(v)

\* C6 amended: every run call but noisy_ghz3_circ_task's is given an OpenQASM
\* source string, unmodified, and every run call an explicit shot count;
\* noisy_ghz3_circ_task's is given the SDK Circuit noisy_ghz3_circ.
C6_AllButCircuitGivenText ==
    /\ \A v \in TaskVars \ {"noisy_ghz3_circ_task"} :
          Has(v) => GivenAuthoredText(v) /\ GivenShots(v)
    /\ Has("noisy_ghz3_circ_task") =>
          /\ tasks[handle["noisy_ghz3_circ_task"]].program.type = "circuit"
          /\ tasks[handle["noisy_ghz3_circ_task"]].program = prog["noisy_ghz3_circ"]
          /\ GivenShots("noisy_ghz3_circ_task")

C6_Witness == \A v \in TaskVars : Has(v)

\* an error is the outcome of its cell: the kernel stays at the raising
\* statement, that statement assigns nothing, nothing of that line or after
\* it is printed, nothing more of the notebook changes, and nothing is ever
\* printed of a task that failed.  The error is the one a device lookup, a
\* rejected run call or a result call on a failed task raises, or the
\* AttributeError of a read of None, which only a result call returns (for
\* a failed task, or when it gives up waiting).
ErrorIsFinal ==
    /\ [][err # NoErr => UNCHANGED nbvars]_vars
    /\ [](err # NoErr =>
            /\ pc <= Len(Notebook)
            /\ err.cell = Notebook[pc].cell /\ err.line = Notebook[pc].line
            /\ \A k \in 1..Len(out) : out[k].line < err.line
            /\ ~SummaryPrinted
            /\ err.kind = "device" =>
                  /\ Notebook[pc].op = "device"
                  /\ dev[Notebook[pc].tgt] = ""
            /\ err.kind = "run" =>
                  /\ Notebook[pc].op \in {"run", "run_source"}
                  /\ handle[Notebook[pc].tgt] = 0
            /\ err.kind = "result" =>
                  /\ Notebook[pc].op = "result"
                  /\ val[Notebook[pc].tgt] = NoVal
                  /\ tasks[handle[Notebook[pc].a]].status = "FAILED"
            /\ err.kind = "attribute" =>
                  /\ Notebook[pc].op \in {"result", "field", "print"}
                  /\ Notebook[pc].b # ""
                  /\ Notebook[pc].op = "result" =>
                        /\ val[Notebook[pc].tgt] = NoVal
                        /\ Has(Notebook[pc].a)
                  /\ Notebook[pc].op # "result" =>
                        /\ IsNone(val[Notebook[pc].a])
                        /\ val[Notebook[pc].a].task \in TaskIds
                  /\ Notebook[pc].op = "field" => val[Notebook[pc].tgt] = NoVal
            /\ err.kind \in {"device", "run", "result", "attribute"})
    /\ [](\A i \in TaskIds : tasks[i].status = "FAILED" =>
            Shown(i) = {} /\ Fetched(i) = {})

\* C7 as stated: an error is the outcome of its cell, and when a result
\* call fails (the kernel is at the call and its task has failed at the
\* service) no statement after that call executes.
C7_ErrorStopsCell ==
    /\ ErrorIsFinal
    /\ [][\A v \in AwaitedVars :
             (Has(v) /\ tasks[handle[v]].status = "FAILED" /\ pc = ResultIdx(v))
                 => pc' = pc]_vars

\* C7 amended: an error is the outcome of its cell, and when a result call
\* fails the notebook does not get past the first statement that reads an
\* attribute of that result, a statement of the same cell: the call itself
\* raises, or it returns None, the statements up to that read execute (in
\* cell 13 the second result call) and the read raises AttributeError.
C7_ErrorStopsAtFirstUse ==
    /\ ErrorIsFinal
    /\ [](\A v \in AwaitedVars : Has(v) /\ tasks[handle[v]].status = "FAILED" =>
            /\ pc <= FirstUse(v)
            /\ Notebook[FirstUse(v)].cell = Notebook[ResultIdx(v)].cell
            /\ pc > ResultIdx(v) =>
                  val[Notebook[ResultIdx(v)].tgt] = None(handle[v]))

\* the SDK task of cell 13 failed, its result call returned None, the second
\* result call of the cell executed and the read of the counts raised
C7_Witness ==
    /\ err.kind = "attribute"
    /\ err.line = 389
    /\ tasks[handle["noisy_ghz3_circ_task"]].status = "FAILED"
    /\ val["openqasm_result"].from = tasks[handle["noisy_ghz3_program_task"]].result
    /\ tasks[handle["noisy_ghz3_program_task"]].status = "COMPLETED"

\* a two-qubit gate line on physical qubits acts on neighbours of the device
Adjacent(x) ==
    /\ x.targets[1].i \in DOMAIN connectivityGraph
    /\ x.targets[2].i \in connectivityGraph[x.targets[1].i]

AllPhysical(x) == \A j \in 1..Len(x.targets) : x.targets[j].k = "phys"

\* C8: every gate in the verbatim box of program_with_verbatim_box (as
\* authored and as submitted) is a native gate of the device, on physical
\* qubits only.
C8_VerbatimBoxNative ==
    /\ src["program_with_verbatim_box"] # <<>> =>
          LET g == BoxGates(src["program_with_verbatim_box"], FALSE)
          IN  /\ Len(g) = 3
              /\ \A j \in 1..Len(g) : g[j].name \in nativeGateSet /\ AllPhysical(g[j])
    /\ Has("verbatim_task") =>
          LET g == BoxGates(tasks[handle["verbatim_task"]].program.source, FALSE)
          IN  /\ Len(g) = 3
              /\ \A j \in 1..Len(g) : g[j].name \in nativeGateSet /\ AllPhysical(g[j])

C8_Witness == Has("verbatim_task") /\ tasks[handle["verbatim_task"]].status = "RUNNING"

\* the two-qubit gate lines on physical qubits of a source string
PhysicalPairs(source) ==
    SelectSeq(source, LAMBDA x : x.kind = "gate" /\ Len(x.targets) = 2 /\ AllPhysical(x))

\* C9: every two-qubit gate a program of the notebook applies to physical
\* qubits acts on a pair adjacent in the connectivity graph: the two cnot of
\* ghz_program_with_physical_qubits and the cz of the verbatim box.
C9_PhysicalPairsAdjacent ==
    /\ \A v \in TextVars :
          \A j \in 1..Len(PhysicalPairs(src[v])) : Adjacent(PhysicalPairs(src[v])[j])
    /\ \A i \in TaskIds :
          \A j \in 1..Len(PhysicalPairs(tasks[i].program.source)) :
              Adjacent(PhysicalPairs(tasks[i].program.source)[j])
    /\ src["ghz_program_with_physical_qubits"] # <<>> =>
          Len(PhysicalPairs(src["ghz_program_with_physical_qubits"])) = 2
    /\ src["program_with_verbatim_box"] # <<>> =>
          Len(PhysicalPairs(src["program_with_verbatim_box"])) = 1

C9_Witness ==
    /\ Has("ghz_program_with_physical_qubits_task")
    /\ Has("verbatim_task")
    /\ Len(PhysicalPairs(tasks[handle["verbatim_task"]].program.source)) = 1
    /\ Len(PhysicalPairs(
            tasks[handle["ghz_program_with_physical_qubits_task"]].program.source)) = 2

\* the gate lines of a compiled program
CompiledGates(c) == SelectSeq(c, LAMBDA x : x.kind \notin {"declare", "pragma", "measure"})

\* what the cell of verbatim_task printed
Cell23 == SelectSeq(out, LAMBDA x : x.cell = 23)

\* C10: the compiled program printed for verbatim_task holds exactly the
\* gates of the verbatim box, same qubits, same order: RX(pi) 0, RX(pi) 0,
\* CZ 0 1, both rx rotations present.
C10_CompiledVerbatim ==
    Executed(711) =>
        /\ Len(Cell23) = 1
        /\ Cell23[1].task = handle["verbatim_task"]
        /\ Cell23[1].path = <<"additional_metadata.rigettiMetadata", "compiledProgram">>
        /\ LET g == CompiledGates(Cell23[1].payload.compiledProgram)
               b == BoxGates(src["program_with_verbatim_box"], FALSE)
           IN  /\ Len(g) = Len(b)
               /\ \A j \in 1..Len(g) : g[j] = Quil(b[j])
               /\ g = << L("gate", "RX", "pi", <<N(0)>>),
                         L("gate", "RX", "pi", <<N(0)>>),
                         L("gate", "CZ", "", <<N(0), N(1)>>) >>

C10_Witness ==
    /\ Executed(711)
    /\ Cell23[1].payload.compiledProgram =
          << L("declare", "ro", "2", <<>>),
             L("pragma", "INITIAL_REWIRING", "NAIVE", <<>>),
             L("gate", "RX", "pi", <<N(0)>>),
             L("gate", "RX", "pi", <<N(0)>>),
             L("gate", "CZ", "", <<N(0), N(1)>>),
             L("measure", "ro[1]", "", <<N(1)>>),
             L("measure", "ro[0]", "", <<N(0)>>) >>

(***************************************************************************)
(* Progress.  The notebook is run from the first cell: the kernel executes *)
(* the next statement whenever it can.  A result call returns when its     *)
(* task has ended or, the task not ended, when the poll time limit is      *)
(* over: no wait lasts for ever.  Nothing is assumed of the service: a     *)
(* task may stay in any state for ever.                                    *)
(***************************************************************************)
FairSpec == Spec /\ WF_vars(Kernel)

\* every task the service has accepted is in a terminal state
AllTerminal == \A i \in TaskIds : tasks[i].status \in Terminal

\* every awaited task the service has accepted has completed
AwaitedCompleted ==
    \A v \in AwaitedVars : Has(v) => tasks[handle[v]].status = "COMPLETED"

\* the task of v is submitted and sits in the queue
Queued(v) == Has(v) /\ tasks[handle[v]].status = "QUEUED"

\* no device lookup and no run call has raised
Accepted == err.kind \notin {"device", "run"}

\* no result call has given up waiting or returned None
NoneGivenUp == err.kind # "attribute" /\ \A x \in ValVars : ~IsNone(val[x])

\* the kernel never gets past the result call on v: nothing of that line or
\* after it is printed, and the summary is not printed
NeverPast(v) ==
    /\ pc <= ResultIdx(v)
    /\ val[Notebook[ResultIdx(v)].tgt] = NoVal
    /\ \A k \in 1..Len(out) : out[k].line < Notebook[ResultIdx(v)].line
    /\ ~SummaryPrinted

\* the second half of C11 as stated, as what a finite run can refute: while
\* an awaited task sits in the queue the kernel has not got past its result
\* call, and a kernel that has reached that call does not move and raises
\* nothing (its polls change the tracker only).
BlockedWhileQueued ==
    /\ [](\A v \in AwaitedVars : Queued(v) => NeverPast(v))
    /\ [][\A v \in AwaitedVars :
             (Queued(v) /\ pc = ResultIdx(v)) => UNCHANGED cellvars]_vars

\* the kernel never gets past the first read of the result of v: no payload
\* of v is held, nothing of the line of the result call or after it is
\* printed, and the summary is not printed
NeverPastFirstUse(v) ==
    /\ pc <= FirstUse(v)
    /\ Notebook[FirstUse(v)].cell = Notebook[ResultIdx(v)].cell
    /\ val[Notebook[ResultIdx(v)].tgt] \in {NoVal, None(handle[v])}
    /\ pc > ResultIdx(v) => val[Notebook[ResultIdx(v)].tgt] = None(handle[v])
    /\ Fetched(handle[v]) = {} /\ Shown(handle[v]) = {}
    /\ \A k \in 1..Len(out) : out[k].line < Notebook[ResultIdx(v)].line
    /\ ~SummaryPrinted

\* the step of a result call on v that gives up waiting: it returns None
\* and the kernel goes to the next statement, or the read of an attribute
\* of None raises on the spot
GivesUp(v) ==
    LET st == Notebook[ResultIdx(v)]
    IN  \/ /\ st.b = "" /\ pc' = pc + 1
           /\ val' = [val EXCEPT ![st.tgt] = None(handle[v])]
           /\ UNCHANGED <<src, prog, noise, dev, handle, out, summary, err>>
        \/ /\ st.b # ""
           /\ err' = [cell |-> st.cell, line |-> st.line, kind |-> "attribute"]
           /\ UNCHANGED <<pc, src, prog, noise, dev, handle, val, out, summary>>

\* the second half of C11 amended: while an awaited task sits in the queue
\* the kernel has not got past the first read of its result, and a kernel
\* that has reached the result call stays there (its polls change the
\* tracker only) unless the call gives up waiting.
StuckWhileQueued ==
    /\ [](\A v \in AwaitedVars : Queued(v) => NeverPastFirstUse(v))
    /\ [][\A v \in AwaitedVars :
             (Queued(v) /\ pc = ResultIdx(v)) =>
                 UNCHANGED cellvars \/ GivesUp(v)]_vars

\* C11 as stated (read with every device lookup and run call accepted by
\* the service): if every accepted task eventually reaches a terminal state
\* the notebook eventually prints the task summary; if an awaited task stays
\* queued for ever the notebook stays blocked at its result call.
C11_SummaryIfAllTerminal ==
    /\ ([]Accepted /\ <>[]AllTerminal) => <>SummaryPrinted
    /\ BlockedWhileQueued

\* C11 amended: if every device lookup and run call is accepted, no result
\* call gives up waiting and every awaited task eventually reaches
\* COMPLETED (FAILED is terminal too, and stops the run at the result call
\* or at the first read of its result), the notebook eventually prints the
\* task summary, whatever becomes of bell_task; the summary is never printed
\* after an awaited task has failed or a result call has given up; if an
\* awaited task stays queued for ever the notebook never gets past the
\* first read of its result: it waits at the result call until the call
\* gives up and then stops with the AttributeError of that read.
C11_SummaryIfAwaitedCompleted ==
    /\ ([]Accepted /\ []NoneGivenUp /\ <>[]AwaitedCompleted) => <>SummaryPrinted
    /\ [](SummaryPrinted =>
            /\ AwaitedCompleted /\ \A v \in AwaitedVars : Has(v)
            /\ err = NoErr /\ \A x \in ValVars : ~IsNone(val[x]))
    /\ StuckWhileQueued

\* the result call on the QPU task of cell 19 gave up while the task was
\* queued, and the task is still queued
C11_Witness ==
    /\ pc = ResultIdx("ghz_program_with_physical_qubits_task")
    /\ Queued("ghz_program_with_physical_qubits_task")
    /\ err.kind = "attribute" /\ err.line = 558
    /\ t.tasks[handle["ghz_program_with_physical_qubits_task"]].status = "QUEUED"

====
